---- MODULE Spec2Model ----
(***************************************************************************)
(* A model of scisample's sampler objects: BaseSampler (base_sampler.py),  *)
(* RandomSampler (random.py), the conversion helpers of utils.py and the   *)
(* maestrowf adapter get_custom_generator (bin/pgen_scisample.py).         *)
(*                                                                         *)
(* Representation.                                                         *)
(*  - An optional Python value (None or a value) is a sequence of length   *)
(*    0 or 1: None is <<>>, a value x is <<x>>.  A key that a dict lacks   *)
(*    is an optional field that is None.                                   *)
(*  - A Python dict is the sequence of its items in insertion order, each  *)
(*    item a record [key, value].                                          *)
(*  - A dict key is a record [str, text]: str says whether the Python      *)
(*    object is a str, text is what str(key) renders.                      *)
(*  - A Python number x is the integer Num(x) = x * FracDen (fixed point), *)
(*    in configurations and in samples alike, so that                      *)
(*    min + f * (max - min) is exact for every fraction f = k / FracDen.   *)
(*  - Distances are compared by their squares (sqrt is strictly            *)
(*    increasing, and sqrt(0) = 0).                                        *)
(***************************************************************************)
EXTENDS Integers, Sequences, FiniteSets, TLC

VARIABLES
    data,              \* BaseSampler._data: the configuration block
    MAESTROWF,         \* base_sampler.MAESTROWF: maestrowf could be imported
    PANDAS_PLUS,       \* base_sampler.PANDAS_PLUS: pandas, numpy, scipy could be imported
    _samples,          \* BaseSampler._samples
    _parameter_block,  \* BaseSampler._parameter_block
    _pgen,             \* BaseSampler._pgen
    ndraws,            \* number of random.random() calls made for this sampler
    call,              \* the most recent call: operation, argument, outcome
    log                \* the messages logged at error level during that call

vars == <<data, MAESTROWF, PANDAS_PLUS, _samples, _parameter_block, _pgen,
          ndraws, call, log>>

(***************************************************************************)
(* Bounds of the model.                                                    *)
(***************************************************************************)
\* the largest num_samples of a configuration
MaxSamples == 3
\* random.random() returns a fraction k / FracDen, 0 <= k < FracDen
FracDen == 2
\* the largest number of random.random() calls of one get_samples run
MaxDraws == 6

(***************************************************************************)
(* Optional values, dicts, names, numbers.                                 *)
(***************************************************************************)
None == << >>
Some(x) == << x >>
IsNone(o) == o = << >>
IsSome(o) == o # << >>
Get(o) == o[1]

Num(x) == x * FracDen

Name(s) == [str |-> TRUE, text |-> s]
IntName(s) == [str |-> FALSE, text |-> s]

Item(k, v) == [key |-> k, value |-> v]
Keys(d) == [i \in 1..Len(d) |-> d[i].key]
HasKey(d, k) == \E i \in 1..Len(d) : d[i].key = k
Lookup(d, k) == d[CHOOSE i \in 1..Len(d) : d[i].key = k].value
\* d[k] = v: an existing key keeps its position, a new key is appended
Put(d, k, v) ==
    IF HasKey(d, k)
    THEN [i \in 1..Len(d) |-> IF d[i].key = k THEN Item(k, v) ELSE d[i]]
    ELSE Append(d, Item(k, v))
\* d.update(e)
RECURSIVE Update(_, _)
Update(d, e) ==
    IF e = << >> THEN d
    ELSE Update(Put(d, Head(e).key, Head(e).value), Tail(e))

Range(s) == {s[i] : i \in 1..Len(s)}

(***************************************************************************)
(* Exceptions and log messages.  A message is its fixed text and the set   *)
(* of names rendered into it (empty when the text is the whole message).   *)
(***************************************************************************)
Msg(t) == [text |-> t, names |-> {}]
MsgNames(t, ns) == [text |-> t, names |-> ns]
Exc(ty, m) == [type |-> ty, msg |-> m]
\* an exception raised by the interpreter or a library, with its own message
Builtin(ty) == Exc(ty, Msg(ty))

(***************************************************************************)
(* Configurations.                                                         *)
(***************************************************************************)
Bounds(lo, hi) == [min |-> Num(lo), max |-> Num(hi)]

ConstantsBlocks ==
    { << Item(Name("X1"), Num(2)) >> }

\* one parameter, two parameters, and a parameter whose min exceeds its max
ParametersBlocks ==
    { << Item(Name("X2"), Bounds(0, 2)) >>,
      << Item(Name("X2"), Bounds(0, 2)), Item(Name("X3"), Bounds(1, 5)) >>,
      << Item(Name("X2"), Bounds(3, 1)) >> }

\* a previous_samples file: whether pandas can parse it, and its rows; a row
\* holds the same number c in every column the sampler selects.  The files
\* come with configurations whose one column is that of parameters.
PrevFile(ok, rows) == [readable |-> ok, rows |-> rows]
PrevFiles ==
    { PrevFile(FALSE, << >>),
      PrevFile(TRUE, << Num(0) >>),
      PrevFile(TRUE, << Num(2), Num(0) >>) }

Config(ty, n, c, p, prev) ==
    [type |-> ty, num_samples |-> n, constants |-> c, parameters |-> p,
     previous_samples |-> prev]

Optional(S) == {None} \cup {Some(x) : x \in S}

\* the regular configurations: with and without a previous_samples file
RegularConfigs ==
    { cfg \in
        { Config(Some("random"), Some(n), c, p, f) :
            n \in 0..MaxSamples, c \in Optional(ConstantsBlocks),
            p \in Optional(ParametersBlocks), f \in Optional(PrevFiles) } :
        /\ IsSome(cfg.previous_samples) =>
              /\ IsNone(cfg.constants)
              /\ IsSome(cfg.parameters) /\ Len(Get(cfg.parameters)) = 1
        /\ IsSome(cfg.parameters) =>
              Get(cfg.num_samples) * Len(Get(cfg.parameters)) <= MaxDraws }

\* one configuration each without a type, with an unknown type, without
\* num_samples, with a constant whose name is the int 7, and with the name X1
\* in both blocks
IrregularConfigs ==
    LET c == Some(<< Item(Name("X1"), Num(2)) >>)
        p == Some(<< Item(Name("X2"), Bounds(0, 2)) >>)
    IN { Config(None, Some(1), c, p, None),
         Config(Some("bogus"), Some(1), c, p, None),
         Config(Some("random"), None, c, p, None),
         Config(Some("random"), Some(1), Some(<< Item(IntName("7"), Num(2)) >>), p, None),
         Config(Some("random"), Some(1), c, Some(<< Item(Name("X1"), Bounds(0, 2)) >>), None) }

Configs == RegularConfigs \cup IrregularConfigs

(***************************************************************************)
(* RandomSampler.parameters: the keys of constants, then of parameters.    *)
(***************************************************************************)
parameters(cfg) ==
    (IF IsSome(cfg.constants) THEN Keys(Get(cfg.constants)) ELSE << >>)
    \o (IF IsSome(cfg.parameters) THEN Keys(Get(cfg.parameters)) ELSE << >>)

(***************************************************************************)
(* RandomSampler.get_samples.                                              *)
(***************************************************************************)
NumSamples(cfg) == IF IsSome(cfg.num_samples) THEN Get(cfg.num_samples) ELSE 0
NumRanged(cfg) == IF IsSome(cfg.parameters) THEN Len(Get(cfg.parameters)) ELSE 0

\* the results of the random.random() calls of one get_samples run: fr[i][j]
\* is the numerator k of the fraction k / FracDen drawn for sample i and the
\* j-th entry of parameters
Fractions(cfg) ==
    [1..NumSamples(cfg) -> [1..NumRanged(cfg) -> 0..(FracDen - 1)]]

\* the draws a call can consume: none is made once the cache is set (the one
\* element then stands for "no draw")
FractionsFor(cfg, cur) ==
    IF IsSome(cur)
    THEN {[i \in 1..NumSamples(cfg) |-> [j \in 1..NumRanged(cfg) |-> 0]]}
    ELSE Fractions(cfg)

\* (mutant) range_dict[key] = value["max"]: the minimum is not subtracted
DrawFromZero(b, k) == b.min + (k * b.max) \div FracDen

\* min_dict[key] + random.random() * range_dict[key], with random.random() = k / FracDen
Draw(b, k) == b.min + (k * (b.max - b.min)) \div FracDen

\* random_list: one dict per sample, keyed by the entries of parameters
random_list(cfg, fr) ==
    LET ps == Get(cfg.parameters)
    IN [i \in 1..NumSamples(cfg) |->
          [j \in 1..Len(ps) |-> Item(ps[j].key, Draw(ps[j].value, fr[i][j]))]]

\* new_sample: the constants (a missing block adds nothing), then the drawn values
new_sample(cfg, random_dictionary) ==
    Update(IF IsSome(cfg.constants) THEN Update(<< >>, Get(cfg.constants)) ELSE << >>,
           random_dictionary)

\* (mutant) without "if self._samples is not None: return self._samples"
get_samplesEveryCall(cfg, cur, fr) ==
    IF IsNone(cfg.parameters) \/ IsNone(cfg.num_samples)
    THEN [samples |-> Some(<< >>), raised |-> Some(Builtin("KeyError")),
          computed |-> TRUE, drawn |-> 0]
    ELSE LET rl == random_list(cfg, fr)
         IN [samples |-> Some([i \in 1..Len(rl) |-> new_sample(cfg, rl[i])]),
             raised |-> None, computed |-> TRUE,
             drawn |-> NumSamples(cfg) * NumRanged(cfg)]

\* One call of get_samples with the cache holding cur: the cache afterwards,
\* the exception raised (None when the call returns the cache), whether the
\* sampling loop was entered, and the number of random.random() calls made.
get_samples(cfg, cur, fr) ==
    IF IsSome(cur)
    THEN [samples |-> cur, raised |-> None, computed |-> FALSE, drawn |-> 0]
    ELSE IF IsNone(cfg.parameters) \/ IsNone(cfg.num_samples)
    THEN \* self._samples = [] is assigned before the KeyError
         [samples |-> Some(<< >>), raised |-> Some(Builtin("KeyError")),
          computed |-> TRUE, drawn |-> 0]
    ELSE LET rl == random_list(cfg, fr)
         IN [samples |-> Some([i \in 1..Len(rl) |-> new_sample(cfg, rl[i])]),
             raised |-> None, computed |-> TRUE,
             drawn |-> NumSamples(cfg) * NumRanged(cfg)]

(***************************************************************************)
(* BaseSampler.parameter_block: the conversion of the samples.             *)
(***************************************************************************)
\* f"{key}.%%" and str(key) + ".%%"
Label(k) == k.text \o ".%%"

\* (mutant) values.insert(0, value): the newest value comes first
AddValueInFront(pb, k, v) ==
    LET pb1 == IF HasKey(pb, k) THEN pb
               ELSE Append(pb, Item(k, [values |-> << >>, label |-> Label(k)]))
    IN [i \in 1..Len(pb1) |->
          IF pb1[i].key = k
          THEN Item(k, [values |-> << v >> \o pb1[i].value.values,
                        label |-> pb1[i].value.label])
          ELSE pb1[i]]

\* the body of the inner loop: create the entry of a key not yet seen, then
\* append the value to the entry's values
AddValue(pb, k, v) ==
    LET pb1 == IF HasKey(pb, k) THEN pb
               ELSE Append(pb, Item(k, [values |-> << >>, label |-> Label(k)]))
    IN [i \in 1..Len(pb1) |->
          IF pb1[i].key = k
          THEN Item(k, [values |-> Append(pb1[i].value.values, v),
                        label |-> pb1[i].value.label])
          ELSE pb1[i]]

\* for key, value in sample.items()
RECURSIVE AddSample(_, _)
AddSample(pb, items) ==
    IF items = << >> THEN pb
    ELSE AddSample(AddValue(pb, Head(items).key, Head(items).value), Tail(items))

\* for sample in self.get_samples()
RECURSIVE BlockOf(_, _)
BlockOf(pb, samples) ==
    IF samples = << >> THEN pb
    ELSE BlockOf(AddSample(pb, Head(samples)), Tail(samples))

(***************************************************************************)
(* utils._convert_dict_to_maestro_params and BaseSampler.maestro_pgen.     *)
(***************************************************************************)
\* the parameters dict of a non-empty sample list, keyed by the first sample's keys
_convert_dict_to_maestro_params(samples) ==
    LET keys == Keys(samples[1])
    IN [j \in 1..Len(keys) |->
          Item(keys[j],
               [label |-> Label(keys[j]),
                values |-> [i \in 1..Len(samples) |-> Lookup(samples[i], keys[j])]])]

\* the generator: the add_parameter(key, values, label) calls, in order
Generator(params) ==
    [j \in 1..Len(params) |->
        [name |-> params[j].key, values |-> params[j].value.values,
         label |-> params[j].value.label]]

\* One access of the parameter_block property with the caches holding curBlock
\* and cur: both caches afterwards, the exception raised, the number of draws.
parameter_block(cfg, curBlock, cur, fr) ==
    IF IsSome(curBlock)
    THEN [block |-> curBlock, samples |-> cur, raised |-> None, drawn |-> 0]
    ELSE LET r == get_samples(cfg, cur, fr)
         IN [block |-> \* self._parameter_block = {} precedes the call of get_samples
                       IF IsSome(r.raised) THEN Some(<< >>)
                       ELSE Some(BlockOf(<< >>, Get(r.samples))),
             samples |-> r.samples, raised |-> r.raised, drawn |-> r.drawn]

\* One access of the maestro_pgen property.
maestro_pgen(cfg, maestrowf, curPgen, cur, fr) ==
    IF ~maestrowf
    THEN [pgen |-> curPgen, samples |-> cur, drawn |-> 0,
          raised |-> Some(Exc("Exception",
                Msg("maestrowf is not installed\nthe maestro_pgen is not supported")))]
    ELSE IF IsSome(curPgen)
    THEN [pgen |-> curPgen, samples |-> cur, drawn |-> 0, raised |-> None]
    ELSE LET r == get_samples(cfg, cur, fr)
         IN IF IsSome(r.raised)
            THEN [pgen |-> curPgen, samples |-> r.samples, drawn |-> r.drawn,
                  raised |-> r.raised]
            ELSE IF Get(r.samples) = << >>
            THEN \* samples[0] of an empty list, in _convert_dict_to_maestro_params
                 [pgen |-> curPgen, samples |-> r.samples, drawn |-> r.drawn,
                  raised |-> Some(Builtin("IndexError"))]
            ELSE [pgen |-> Some(Generator(
                              _convert_dict_to_maestro_params(Get(r.samples)))),
                  samples |-> r.samples, drawn |-> r.drawn, raised |-> None]

(***************************************************************************)
(* utils.log_and_raise_exception: the message is logged, then raised.      *)
(***************************************************************************)
log_and_raise_exception(m) ==
    [log |-> << m >>, raised |-> Some(Exc("SamplingError", m))]
\* a bare raise Exception(m): nothing is logged
raise_exception(m) ==
    [log |-> << >>, raised |-> Some(Exc("Exception", m))]

(***************************************************************************)
(* BaseSampler.downselect.  Candidate indices are Python's: candidate i    *)
(* is candidates[i + 1] here.                                              *)
(***************************************************************************)
\* df[columns].values.tolist(): one row per sample, one entry per column
Candidates(pool, columns) ==
    [i \in 1..Len(pool) |-> [j \in 1..Len(columns) |-> Lookup(pool[i], columns[j])]]

\* previous_samples[columns].values.tolist()
PreviousPoints(file, ndims) ==
    [i \in 1..Len(file.rows) |-> [j \in 1..ndims |-> file.rows[i]]]

RECURSIVE SumSquares(_, _, _)
SumSquares(p, q, j) ==
    IF j = 0 THEN 0
    ELSE (p[j] - q[j]) * (p[j] - q[j]) + SumSquares(p, q, j - 1)
\* the square of the Euclidean distance of p and q
Dist2(p, q) == SumSquares(p, q, Len(p))

\* tree.query(pos)[0], squared: the distance of pos to its nearest point of pts
Nearest2(pos, pts) ==
    LET ds == {Dist2(pos, pts[k]) : k \in 1..Len(pts)}
    IN CHOOSE d \in ds : \A e \in ds : d <= e

\* the first candidate index the inner loop visits
FirstScanned == 1

\* (mutant) if dist >= d: a candidate at distance zero is taken
RECURSIVE ScanNotStrict(_, _, _, _, _)
ScanNotStrict(candidates, pts, i, j, d) ==
    IF i >= Len(candidates) THEN [j |-> j, d |-> d]
    ELSE LET dist == Nearest2(candidates[i + 1], pts)
         IN IF dist >= d
            THEN ScanNotStrict(candidates, pts, i + 1, i, dist)
            ELSE ScanNotStrict(candidates, pts, i + 1, j, d)

\* for i in range(1, bign): the candidate j with the largest dist > d seen so
\* far, the first of them in index order; j = bign when there is none
RECURSIVE Scan(_, _, _, _, _)
Scan(candidates, pts, i, j, d) ==
    IF i >= Len(candidates) THEN [j |-> j, d |-> d]
    ELSE LET dist == Nearest2(candidates[i + 1], pts)
         IN IF dist > d
            THEN Scan(candidates, pts, i + 1, i, dist)
            ELSE Scan(candidates, pts, i + 1, j, d)

\* (mutant) for n in range(n0, num_points + 1): one point too many
RECURSIVE SelectOneMore(_, _, _, _, _)
SelectOneMore(candidates, n, num_points, sample_points, new_sample_ids) ==
    IF n > num_points
    THEN [exhausted |-> FALSE, ids |-> new_sample_ids, points |-> sample_points]
    ELSE LET r == Scan(candidates, sample_points, FirstScanned, Len(candidates), 0)
         IN IF r.j = Len(candidates)
            THEN [exhausted |-> TRUE, ids |-> new_sample_ids, points |-> sample_points]
            ELSE SelectOneMore(candidates, n + 1, num_points,
                               Append(sample_points, candidates[r.j + 1]),
                               Append(new_sample_ids, r.j))

\* for n in range(n0, num_points): the ids selected, and whether the loop
\* raised because a scan found no candidate
RECURSIVE Select(_, _, _, _, _)
Select(candidates, n, num_points, sample_points, new_sample_ids) ==
    IF n >= num_points
    THEN [exhausted |-> FALSE, ids |-> new_sample_ids, points |-> sample_points]
    ELSE LET r == Scan(candidates, sample_points, FirstScanned, Len(candidates), 0)
         IN IF r.j = Len(candidates)
            THEN [exhausted |-> TRUE, ids |-> new_sample_ids, points |-> sample_points]
            ELSE Select(candidates, n + 1, num_points,
                        Append(sample_points, candidates[r.j + 1]),
                        Append(new_sample_ids, r.j))

\* the rows df.iloc[id] of the selected ids, as records
Rows(pool, ids) == [k \in 1..Len(ids) |-> pool[ids[k] + 1]]

\* (mutant) self._samples is assigned inside the loop: a call that raises the
\* search-exhaustion error leaves the points selected so far
downselectStoresEachPoint(cfg, pandas_plus, cur, num_points) ==
    LET pool == IF IsSome(cur) THEN Get(cur) ELSE << >>
        columns == parameters(cfg)
        candidates == Candidates(pool, columns)
        seeded == IsNone(cfg.previous_samples)
        run == IF seeded
               THEN Select(candidates, 1, num_points, << candidates[1] >>, << 0 >>)
               ELSE Select(candidates, 0, num_points,
                           PreviousPoints(Get(cfg.previous_samples), Len(columns)),
                           << >>)
        keep(o) == [log |-> o.log, raised |-> o.raised, samples |-> cur]
    IN IF ~pandas_plus
       THEN keep(log_and_raise_exception(
                Msg("This function requires pandas, numpy & scipy packages")))
       ELSE IF pool = << >>
       THEN keep([log |-> << >>, raised |-> Some(Builtin("LookupError"))])
       ELSE IF ~seeded /\ ~Get(cfg.previous_samples).readable
       THEN keep(raise_exception(Msg("Error opening previous_samples datafile:")))
       ELSE IF run.exhausted
       THEN [log |-> << >>,
             raised |-> Some(Exc("Exception",
                 Msg("During 'downselect', failed to find any candidates in the tree."))),
             samples |-> Some(Rows(pool, run.ids))]
       ELSE [log |-> << >>, raised |-> None, samples |-> Some(Rows(pool, run.ids))]

\* One call of downselect(num_points) on the cache cur: what is logged and
\* raised (None when the call completes) and the cache afterwards.
downselect(cfg, pandas_plus, cur, num_points) ==
    LET pool == IF IsSome(cur) THEN Get(cur) ELSE << >>
        columns == parameters(cfg)
        candidates == Candidates(pool, columns)
        seeded == IsNone(cfg.previous_samples)
        run == IF seeded
               THEN Select(candidates, 1, num_points, << candidates[1] >>, << 0 >>)
               ELSE Select(candidates, 0, num_points,
                           PreviousPoints(Get(cfg.previous_samples), Len(columns)),
                           << >>)
        keep(o) == [log |-> o.log, raised |-> o.raised, samples |-> cur]
    IN IF ~pandas_plus
       THEN keep(log_and_raise_exception(
                Msg("This function requires pandas, numpy & scipy packages")))
       ELSE IF pool = << >>
       THEN \* no row to select the columns from (KeyError), or candidates[0] of
            \* an empty list (IndexError): a LookupError either way
            keep([log |-> << >>, raised |-> Some(Builtin("LookupError"))])
       ELSE IF ~seeded /\ ~Get(cfg.previous_samples).readable
       THEN keep(raise_exception(Msg("Error opening previous_samples datafile:")))
       ELSE IF run.exhausted
       THEN keep(raise_exception(
                Msg("During 'downselect', failed to find any candidates in the tree.")))
       ELSE [log |-> << >>, raised |-> None, samples |-> Some(Rows(pool, run.ids))]

(***************************************************************************)
(* Validation: BaseSampler.check_validity, BaseSampler._check_variables,   *)
(* RandomSampler.is_valid.                                                 *)
(***************************************************************************)
ALLOWED_SAMPLING_KEYS ==
    {"best_candidate", "column_list", "cross_product", "csv", "custom", "list", "random"}

\* schema.validate_sampler: the exception it raises, "" when it returns
validate_sampler(cfg) ==
    IF IsNone(cfg.type) THEN "ValueError"
    ELSE IF Get(cfg.type) \notin ALLOWED_SAMPLING_KEYS THEN "KeyError"
    ELSE IF IsNone(cfg.num_samples) THEN "ValidationError"
    ELSE ""

returns == [log |-> << >>, raised |-> None]

check_validity(cfg) ==
    LET e == validate_sampler(cfg)
    IN IF e = "ValueError"
       THEN log_and_raise_exception(Msg("No 'type' entry found in sampler data"))
       ELSE IF e = "KeyError"
       THEN log_and_raise_exception(
                MsgNames("Sampler type not found in schema", {Name(Get(cfg.type))}))
       ELSE IF e = "ValidationError"
       THEN log_and_raise_exception(Msg("Sampler data is invalid"))
       ELSE returns

\* utils.find_duplicates: seen counts the occurrences, dupes lists an item
\* when its second occurrence is met
RECURSIVE FindDuplicates(_, _, _)
FindDuplicates(lst, seen, dupes) ==
    IF lst = << >> THEN dupes
    ELSE LET x == Head(lst)
         IN IF ~HasKey(seen, x)
            THEN FindDuplicates(Tail(lst), Put(seen, x, 1), dupes)
            ELSE FindDuplicates(Tail(lst), Put(seen, x, Lookup(seen, x) + 1),
                                IF Lookup(seen, x) = 1 THEN Append(dupes, x) ELSE dupes)
find_duplicates(lst) == FindDuplicates(lst, << >>, << >>)

_check_variables_strings(ps) ==
    IF \E i \in 1..Len(ps) : ~ps[i].str
    THEN log_and_raise_exception(Msg("constants and parameters must be strings"))
    ELSE returns

_check_variables_existence(ps) ==
    IF Len(ps) = 0
    THEN log_and_raise_exception(
             Msg("Either constants or parameters must be included in the sampler data"))
    ELSE returns

_check_variables_for_dups(ps) ==
    IF Len(ps) # Cardinality(Range(ps))
    THEN log_and_raise_exception(
             MsgNames("The following constants or parameters are defined more than once: ",
                      Range(find_duplicates(ps))))
    ELSE returns

_check_variables(cfg) ==
    LET ps == parameters(cfg)
    IN IF IsSome(_check_variables_strings(ps).raised) THEN _check_variables_strings(ps)
       ELSE IF IsSome(_check_variables_existence(ps).raised)
       THEN _check_variables_existence(ps)
       ELSE _check_variables_for_dups(ps)

\* RandomSampler.is_valid: super(RandomSampler, self).is_valid() is looked up
\* in BaseSampler, SamplerInterface, abc.ABC and object, none of which
\* defines is_valid, so the call raises AttributeError and nothing after it runs
is_valid(cfg) ==
    [log |-> << >>, raised |-> Some(Builtin("AttributeError"))]

(***************************************************************************)
(* bin/pgen_scisample.get_custom_generator.                                *)
(***************************************************************************)
\* the dictionaries a caller passes as sample_dictionary, and those the study
\* environment holds as SAMPLE_DICTIONARY
KwDictionary ==
    Config(Some("random"), Some(1), None,
           Some(<< Item(Name("A"), Bounds(0, 2)) >>), None)
EnvDictionary ==
    Config(Some("random"), Some(1), None,
           Some(<< Item(Name("B"), Bounds(0, 2)) >>), None)

\* samplers.new_sampler(d).maestro_pgen: the generator of a new sampler
new_sampler_pgen(d, maestrowf, fr) == maestro_pgen(d, maestrowf, None, None, fr)

\* kw: the sample_dictionary keyword (None when not passed); found: the value
\* of env.find("SAMPLE_DICTIONARY") (None when the lookup raises ValueError).
\* The default of kwargs.get is evaluated before kwargs.get is called.
get_custom_generator(kw, found, maestrowf, fr) ==
    IF IsNone(found)
    THEN [raised |-> Some(Exc("Exception",
                              Msg("this pgen code requires SAMPLE_DICTIONARY to be defined in the yaml specification"))),
          ret |-> None]
    ELSE LET SAMPLE_DICTIONARY == IF IsSome(kw) THEN Get(kw) ELSE Get(found)
             g == new_sampler_pgen(SAMPLE_DICTIONARY, maestrowf, fr)
         IN [raised |-> g.raised, ret |-> IF IsSome(g.raised) THEN None ELSE g.pgen]

(***************************************************************************)
(* The calls.                                                              *)
(***************************************************************************)
Call(op, arg, raised, ret) ==
    [op |-> op, arg |-> arg, raised |-> raised, ret |-> ret]

Init ==
    /\ data \in Configs
    /\ MAESTROWF \in BOOLEAN
    /\ PANDAS_PLUS \in BOOLEAN
    /\ _samples = None
    /\ _parameter_block = None
    /\ _pgen = None
    /\ ndraws = 0
    /\ call = Call("__init__", 0, None, None)
    /\ log = << >>

GetSamples ==
    \E fr \in FractionsFor(data, _samples) :
        LET r == get_samples(data, _samples, fr)
        IN /\ _samples' = r.samples
           /\ ndraws' = ndraws + r.drawn
           /\ call' = Call("get_samples", 0, r.raised,
                           IF IsNone(r.raised) THEN r.samples ELSE None)
           /\ log' = << >>
           /\ UNCHANGED <<data, MAESTROWF, PANDAS_PLUS, _parameter_block, _pgen>>

ParameterBlock ==
    \E fr \in FractionsFor(data, _samples) :
        LET r == parameter_block(data, _parameter_block, _samples, fr)
        IN /\ _parameter_block' = r.block
           /\ _samples' = r.samples
           /\ ndraws' = ndraws + r.drawn
           /\ call' = Call("parameter_block", 0, r.raised,
                           IF IsNone(r.raised) THEN r.block ELSE None)
           /\ log' = << >>
           /\ UNCHANGED <<data, MAESTROWF, PANDAS_PLUS, _pgen>>

MaestroPgen ==
    \E fr \in FractionsFor(data, _samples) :
        LET r == maestro_pgen(data, MAESTROWF, _pgen, _samples, fr)
        IN /\ _pgen' = r.pgen
           /\ _samples' = r.samples
           /\ ndraws' = ndraws + r.drawn
           /\ call' = Call("maestro_pgen", 0, r.raised,
                           IF IsNone(r.raised) THEN r.pgen ELSE None)
           /\ log' = << >>
           /\ UNCHANGED <<data, MAESTROWF, PANDAS_PLUS, _parameter_block>>

Downselect ==
    \E num_points \in 0..(MaxSamples + 1) :
        LET r == downselect(data, PANDAS_PLUS, _samples, num_points)
        IN /\ _samples' = r.samples
           /\ call' = Call("downselect", num_points, r.raised, None)
           /\ log' = r.log
           /\ UNCHANGED <<data, MAESTROWF, PANDAS_PLUS, _parameter_block, _pgen, ndraws>>

\* a call that leaves the sampler as it is
Checks(op, r) ==
    /\ call' = Call(op, 0, r.raised, None)
    /\ log' = r.log
    /\ UNCHANGED <<data, MAESTROWF, PANDAS_PLUS, _samples, _parameter_block, _pgen, ndraws>>

CheckValidity == Checks("check_validity", check_validity(data))

CheckVariables == Checks("_check_variables", _check_variables(data))

IsValid == Checks("is_valid", is_valid(data))

\* the adapter builds a sampler of its own: this sampler is left as it is
GetCustomGenerator ==
    \E kw \in Optional({KwDictionary}), found \in Optional({EnvDictionary}) :
        \E fr \in Fractions(IF IsSome(kw) THEN KwDictionary ELSE EnvDictionary) :
            LET r == get_custom_generator(kw, found, MAESTROWF, fr)
            IN /\ call' = Call("get_custom_generator", [kwargs |-> kw, env |-> found],
                               r.raised, r.ret)
               /\ log' = << >>
               /\ UNCHANGED <<data, MAESTROWF, PANDAS_PLUS, _samples, _parameter_block,
                              _pgen, ndraws>>

Next ==
    \/ GetSamples
    \/ ParameterBlock
    \/ MaestroPgen
    \/ Downselect
    \/ CheckValidity
    \/ CheckVariables
    \/ IsValid
    \/ GetCustomGenerator

Spec == Init /\ [][Next]_vars

\* the operations that read and write the sampler's caches
NextSampler ==
    \/ GetSamples
    \/ ParameterBlock
    \/ MaestroPgen
    \/ Downselect

SpecSampler == Init /\ [][NextSampler]_vars

\* the sample list and what replaces it
NextDownselect ==
    \/ GetSamples
    \/ Downselect

SpecDownselect == Init /\ [][NextDownselect]_vars

\* the validation calls
NextChecks ==
    \/ CheckValidity
    \/ CheckVariables
    \/ IsValid

SpecChecks == Init /\ [][NextChecks]_vars

\* the adapter
SpecAdapter == Init /\ [][GetCustomGenerator]_vars

\* a sampler whose accessors alone are called: downselect, which no random
\* sampler calls on itself, does not replace the sample list
NextAccess ==
    \/ GetSamples
    \/ ParameterBlock
    \/ MaestroPgen

SpecAccess == Init /\ [][NextAccess]_vars

(***************************************************************************)
(* Vocabulary of the properties.                                           *)
(***************************************************************************)
Returned(op) == call.op = op /\ IsNone(call.raised)
Raised(op) == call.op = op /\ IsSome(call.raised)

\* the configuration has the fields the random strategy reads
Samplable == IsSome(data.num_samples) /\ IsSome(data.parameters)

ConstantItems == IF IsSome(data.constants) THEN Get(data.constants) ELSE << >>
RangedItems == IF IsSome(data.parameters) THEN Get(data.parameters) ELSE << >>

\* v is min + f * (max - min) for a fraction f = k / FracDen in [0, 1)
IsDrawFrom(v, b) ==
    \E k \in 0..(FracDen - 1) : FracDen * (v - b.min) = k * (b.max - b.min)

Least(a, b) == IF a <= b THEN a ELSE b
Greatest(a, b) == IF a <= b THEN b ELSE a

(***************************************************************************)
(* C1.  get_samples of a random sampler with num_samples = N and ranged    *)
(* parameters.                                                             *)
(***************************************************************************)
\* C1 as stated: get_samples returns exactly N samples; each sample's key set
\* is the keys of constants together with the keys of parameters, every
\* constant key holds its configured value, and every ranged key holds a
\* value v with min <= v <= max.
C1_AsStated ==
    (Samplable /\ Returned("get_samples")) =>
        LET ss == Get(call.ret)
        IN /\ Len(ss) = Get(data.num_samples)
           /\ \A i \in 1..Len(ss) :
                /\ Range(Keys(ss[i])) = Range(parameters(data))
                /\ \A c \in Range(ConstantItems) : Lookup(ss[i], c.key) = c.value
                /\ \A p \in Range(RangedItems) :
                      /\ p.value.min <= Lookup(ss[i], p.key)
                      /\ Lookup(ss[i], p.key) <= p.value.max

\* C1 as amended: get_samples returns exactly N samples; each sample's key set
\* is the keys of constants together with the keys of parameters; every
\* constant key that is not also a key of parameters holds its configured
\* value; every ranged key holds v = min + f * (max - min) for a fraction f
\* in [0, 1), which lies between min and max in whichever order they come.
C1_Samples ==
    (Samplable /\ Returned("get_samples")) =>
        LET ss == Get(call.ret)
        IN /\ Len(ss) = Get(data.num_samples)
           /\ \A i \in 1..Len(ss) :
                /\ Range(Keys(ss[i])) = Range(parameters(data))
                /\ \A c \in Range(ConstantItems) :
                      ~HasKey(RangedItems, c.key) => Lookup(ss[i], c.key) = c.value
                /\ \A p \in Range(RangedItems) :
                      LET v == Lookup(ss[i], p.key)
                      IN /\ IsDrawFrom(v, p.value)
                         /\ Least(p.value.min, p.value.max) <= v
                         /\ v <= Greatest(p.value.min, p.value.max)

\* get_samples has returned two samples of a constant and a ranged parameter,
\* one of them strictly inside the range
C1_Witness ==
    /\ Samplable /\ Returned("get_samples")
    /\ Len(Get(call.ret)) = 2
    /\ ConstantItems # << >>
    /\ \E i \in 1..2 : \E p \in Range(RangedItems) :
          /\ p.value.min < Lookup(Get(call.ret)[i], p.key)
          /\ Lookup(Get(call.ret)[i], p.key) < p.value.max

(***************************************************************************)
(* Vocabulary of the downselect properties.  They are read on a step from  *)
(* the state a downselect call finds to the state it leaves.               *)
(***************************************************************************)
\* downselect reaches its selection loop: the capability is present, there is
\* a candidate, and the previous_samples file (when configured) is readable
Searching ==
    /\ PANDAS_PLUS
    /\ IsSome(_samples) /\ Get(_samples) # << >>
    /\ IsSome(data.previous_samples) => Get(data.previous_samples).readable

Seeded == IsNone(data.previous_samples)

\* the candidate pool the call finds, as points
Pool == Candidates(Get(_samples), parameters(data))

\* the points selected before the first step
SeedPoints ==
    IF Seeded THEN << Pool[1] >>
    ELSE PreviousPoints(Get(data.previous_samples), Len(parameters(data)))

\* the number of points the call can return: the distinct candidate positions
\* (the seed's among them), or those that no previous point occupies
Available ==
    IF Seeded THEN Cardinality(Range(Pool))
    ELSE Cardinality(Range(Pool) \ Range(SeedPoints))

Exhaustion ==
    Exc("Exception", Msg("During 'downselect', failed to find any candidates in the tree."))

\* the sample list left is the rows of distinct candidate indices, candidate 0 first
SelectsDistinctFromSeed(before, after) ==
    \E ids \in [1..Len(after) -> 0..(Len(before) - 1)] :
        /\ \A k, l \in 1..Len(after) : ids[k] = ids[l] => k = l
        /\ Len(after) >= 1 /\ ids[1] = 0
        /\ \A k \in 1..Len(after) : after[k] = before[ids[k] + 1]

(***************************************************************************)
(* C2.  The candidate chosen at each selection step.                       *)
(***************************************************************************)
\* C2 as stated: at every selection step of a downselect call, with or without
\* previous_samples, the candidate chosen has the largest distance to its
\* nearest already-selected point among all candidates of the pool, index 0
\* included (a selected candidate is at distance zero).
C2_AsStated ==
    [][(Searching /\ call'.op = "downselect" /\ IsNone(call'.raised)) =>
          LET chosen == Candidates(Get(_samples'), parameters(data))
              n0 == IF Seeded THEN 1 ELSE 0
          IN \A k \in (n0 + 1)..Len(chosen) :
                LET selected == SeedPoints \o SubSeq(chosen, n0 + 1, k - 1)
                IN \A i \in 1..Len(Pool) :
                      Nearest2(chosen[k], selected) >= Nearest2(Pool[i], selected)]_vars

(***************************************************************************)
(* C3.  The result of downselect without previous_samples.                 *)
(***************************************************************************)
\* C3 as stated: with no previous_samples and any num_points <= M, the size of
\* the pool, the sample list afterwards has exactly num_points entries, its
\* first entry is candidate 0, and no candidate index appears in it twice.
C3_AsStated ==
    [][(Searching /\ Seeded /\ call'.op = "downselect"
          /\ call'.arg <= Len(Pool)) =>
          /\ Len(Get(_samples')) = call'.arg
          /\ SelectsDistinctFromSeed(Get(_samples), Get(_samples'))]_vars

\* C3 as amended: with no previous_samples and 1 <= num_points <= the number
\* of distinct candidate positions of the pool, downselect completes, and the
\* sample list afterwards has exactly num_points entries, its first entry is
\* candidate 0, and no candidate index appears in it twice.
C3_Downselect ==
    [][(Searching /\ Seeded /\ call'.op = "downselect"
          /\ 1 <= call'.arg /\ call'.arg <= Available) =>
          /\ IsNone(call'.raised)
          /\ Len(Get(_samples')) = call'.arg
          /\ SelectsDistinctFromSeed(Get(_samples), Get(_samples'))]_vars

\* a downselect call without previous_samples has completed with three points
\* selected
C3_Witness ==
    /\ Returned("downselect") /\ Seeded /\ PANDAS_PLUS
    /\ call.arg = 3 /\ Len(Get(_samples)) = 3

(***************************************************************************)
(* C4.  Search exhaustion.                                                 *)
(***************************************************************************)
\* C4: when downselect is asked for more points than there are distinct
\* candidate positions available, the call raises the search-exhaustion error
\* and leaves the sample list as it was: it neither returns a list nor
\* selects a point at distance zero.
C4_Exhaustion ==
    [][(Searching /\ call'.op = "downselect" /\ call'.arg > Available) =>
          /\ call'.raised = Some(Exhaustion)
          /\ _samples' = _samples]_vars

\* a downselect call on a pool of at least two candidates has raised the
\* search-exhaustion error
C4_Witness ==
    /\ Raised("downselect") /\ Get(call.raised) = Exhaustion
    /\ Len(Get(_samples)) >= 2 /\ call.arg <= Len(Get(_samples))

(***************************************************************************)
(* C5.  The source of the adapter's configuration.                         *)
(***************************************************************************)
ConfigurationError ==
    Exc("Exception",
        Msg("this pgen code requires SAMPLE_DICTIONARY to be defined in the yaml specification"))

\* the parameter names a generator registers
Registered(g) == [j \in 1..Len(g) |-> g[j].name]

\* C5 as stated: get_custom_generator raises the configuration error exactly
\* when neither the sample_dictionary keyword nor the SAMPLE_DICTIONARY
\* environment value is present; otherwise the generator it returns is that of
\* the keyword's dictionary whenever the keyword is supplied, and that of the
\* environment's dictionary only when the keyword is absent.
C5_AsStated ==
    call.op = "get_custom_generator" =>
        LET kw == call.arg.kwargs
            found == call.arg.env
        IN /\ (call.raised = Some(ConfigurationError)) <=> (IsNone(kw) /\ IsNone(found))
           /\ (IsSome(kw) /\ MAESTROWF) =>
                 /\ IsNone(call.raised)
                 /\ Registered(Get(call.ret)) = parameters(Get(kw))
           /\ (IsNone(kw) /\ IsSome(found) /\ MAESTROWF) =>
                 /\ IsNone(call.raised)
                 /\ Registered(Get(call.ret)) = parameters(Get(found))

(***************************************************************************)
(* C6.  Memoization of the samples, the parameter block and the generator. *)
(***************************************************************************)
\* C6: over any sequence of get_samples, parameter_block and maestro_pgen
\* calls, random values are drawn only by a call that finds no sample list
\* yet; once the sample list, the parameter block or the generator is set it
\* is never replaced, and every call that finds its object set returns that
\* same object.
C6_Memoized ==
    [][/\ ndraws' # ndraws => IsNone(_samples)
       /\ IsSome(_samples) => _samples' = _samples
       /\ IsSome(_parameter_block) => _parameter_block' = _parameter_block
       /\ IsSome(_pgen) => _pgen' = _pgen
       /\ (call'.op = "get_samples" /\ IsSome(_samples)) =>
             call'.raised = None /\ call'.ret = _samples
       /\ (call'.op = "parameter_block" /\ IsSome(_parameter_block)) =>
             call'.raised = None /\ call'.ret = _parameter_block
       /\ (call'.op = "maestro_pgen" /\ IsSome(_pgen)) =>
             call'.raised = None /\ call'.ret = _pgen]_vars

\* get_samples has returned the drawn samples of a sampler whose parameter
\* block and generator were computed by earlier calls
C6_Witness ==
    /\ Returned("get_samples") /\ call.ret = _samples
    /\ IsSome(_parameter_block) /\ IsSome(_pgen)
    /\ ndraws >= 2
    /\ \E i \in 1..Len(Get(_samples)) : \E p \in Range(RangedItems) :
          Lookup(Get(_samples)[i], p.key) # p.value.min

(***************************************************************************)
(* C7.  The parameter-naming errors of the validity check.                 *)
(***************************************************************************)
NonStringName == \E k \in Range(parameters(data)) : ~k.str
NoName == parameters(data) = << >>
DuplicatedNames ==
    {k \in Range(parameters(data)) :
        Cardinality({i \in 1..Len(parameters(data)) : parameters(data)[i] = k}) > 1}

NamingErrors ==
    { Msg("constants and parameters must be strings"),
      Msg("Either constants or parameters must be included in the sampler data"),
      MsgNames("The following constants or parameters are defined more than once: ",
               DuplicatedNames) }

\* C7 as stated: for every configuration with a non-string name, no name at
\* all, or a name in both constants and parameters, the validity check
\* is_valid raises a parameter-naming error, and the error of a duplicate
\* names every duplicated name.
C7_AsStated ==
    (call.op = "is_valid" /\ (NonStringName \/ NoName \/ DuplicatedNames # {})) =>
        /\ IsSome(call.raised)
        /\ Get(call.raised).type = "SamplingError"
        /\ Get(call.raised).msg \in NamingErrors
        /\ (~NonStringName /\ DuplicatedNames # {}) =>
              Get(call.raised).msg.names = DuplicatedNames

(***************************************************************************)
(* C8.  The shape of the parameter block.                                  *)
(***************************************************************************)
\* where key k is first seen: the first sample holding it, and its place there
FirstSeen(ss, k) ==
    LET i == CHOOSE a \in 1..Len(ss) :
                 /\ HasKey(ss[a], k)
                 /\ \A b \in 1..(a - 1) : ~HasKey(ss[b], k)
    IN << i, CHOOSE j \in 1..Len(ss[i]) : ss[i][j].key = k >>
Earlier(p, q) == p[1] < q[1] \/ (p[1] = q[1] /\ p[2] < q[2])

OwnErrors == {"SamplingError", "Exception"}

\* C9 as stated: every error raised by check_validity, the parameter checks,
\* maestro_pgen, downselect and get_custom_generator is preceded by a log
\* event that carries the message of the raised exception.
C9_AsStated ==
    ( /\ call.op \in {"check_validity", "_check_variables", "maestro_pgen",
                      "downselect", "get_custom_generator"}
      /\ IsSome(call.raised)
      /\ Get(call.raised).type \in OwnErrors ) =>
        Get(call.raised).msg \in Range(log)

(***************************************************************************)
(* C10.  A configuration with one of the blocks constants / parameters.    *)
(***************************************************************************)
\* exactly one of the two blocks is present (a block present is non-empty)
OneBlock ==
    /\ data.type = Some("random") /\ IsSome(data.num_samples)
    /\ IsSome(data.constants) # IsSome(data.parameters)

PresentBlock ==
    IF IsSome(data.constants) THEN Get(data.constants) ELSE Get(data.parameters)

\* C10 as stated: when exactly one of constants / parameters is present, the
\* parameter-name list is that block's keys and get_samples returns
\* num_samples samples whose keys are exactly that block's keys.
C10_AsStated ==
    (OneBlock /\ call.op = "get_samples") =>
        /\ parameters(data) = Keys(PresentBlock)
        /\ IsNone(call.raised)
        /\ Len(Get(call.ret)) = Get(data.num_samples)
        /\ \A i \in 1..Len(Get(call.ret)) :
              Keys(Get(call.ret)[i]) = Keys(PresentBlock)

(***************************************************************************)
(* C11.  The parameter block and the generator against the current samples.*)
(***************************************************************************)
\* the values of key k across the samples, in sample order
ValuesOf(ss, k) == [i \in 1..Len(ss) |-> Lookup(ss[i], k)]

\* C11 as stated: after any sequence of get_samples, parameter_block,
\* maestro_pgen and downselect calls, the mapping parameter_block returns and
\* the values registered in the generator maestro_pgen returns list, for each
\* parameter, exactly the values of the current sample list, in sample order.
C11_AsStated ==
    /\ Returned("parameter_block") =>
          \A a \in 1..Len(Get(call.ret)) :
              Get(call.ret)[a].value.values =
                  ValuesOf(Get(_samples), Get(call.ret)[a].key)
    /\ Returned("maestro_pgen") =>
          \A a \in 1..Len(Get(call.ret)) :
              Get(call.ret)[a].values =
                  ValuesOf(Get(_samples), Get(call.ret)[a].name)

(***************************************************************************)
(* C12.  The frame of a downselect call that raises.                       *)
(***************************************************************************)
\* C12: a downselect call that raises (missing capability, unreadable
\* previous_samples file, search exhaustion, or any other error) leaves the
\* sample list, the parameter block and the generator exactly as they were;
\* a sample list that is set is replaced only by a downselect call that
\* completes.
C12_Frame ==
    [][/\ (call'.op = "downselect" /\ IsSome(call'.raised)) =>
             /\ _samples' = _samples
             /\ _parameter_block' = _parameter_block
             /\ _pgen' = _pgen
       /\ (IsSome(_samples) /\ _samples' # _samples) =>
             call'.op = "downselect" /\ IsNone(call'.raised)]_vars

\* a downselect call has raised the search-exhaustion error on a sampler whose
\* sample list of two or more, parameter block and generator are all set
C12_Witness ==
    /\ Raised("downselect") /\ Get(call.raised) = Exhaustion
    /\ IsSome(_samples) /\ Len(Get(_samples)) >= 2
    /\ IsSome(_parameter_block) /\ IsSome(_pgen)

====
